---- MODULE Spec2Model ----
(***************************************************************************)
(* Batch processing dashboard of santopaul/dicomweb                       *)
(* (src/components/metadata-display.tsx, BatchProcessingDashboard).       *)
(*                                                                         *)
(* The dashboard is a React component.  Its state is the job list `jobs`, *)
(* the active-job slot `activeJobId` and the shared AbortController ref   *)
(* `processingController`.  startJob is an async function: everything     *)
(* between two `await`s runs atomically on the event loop, so one action  *)
(* of the model is one such run-to-suspension segment.  A driving loop    *)
(* suspends at `await fetch(...)` and at `await response.json()`; the     *)
(* answer, the failure or the abort of a request is delivered to the loop *)
(* as a later task, and the user's clicks (start, pause, delete, upload)  *)
(* are tasks of the same event loop that may run in between.              *)
(*                                                                         *)
(* Every setJobs call uses a functional updater, so the updates apply to  *)
(* the current list in program order.  What a loop READS, however, is the *)
(* `jobs` and `job` of the render in which startJob was called: the       *)
(* closure's snapshot (kept here in the run record).                      *)
(***************************************************************************)
EXTENDS Integers, Sequences, FiniteSets, TLC

\* ---------------------------------------------------------------- bounds
MaxJobs  == 3      \* jobs ever created
MaxFiles == 3      \* files selected in one upload
MaxRuns  == 3      \* calls of startJob that pass its guard
MaxUploaded == 3   \* files ever put into jobs
MaxTicks == 1      \* ticker firings that raise the progress of one processing attempt

MaxDropped == 2    \* files dropped on the simple upload view
MaxRequests == 3   \* calls of processFiles and processFileWithOptions

JobIds  == 1..MaxJobs
FileIds == 1..MaxDropped
RequestIds == 1..MaxRequests
RunIds  == 1..MaxRuns
NULL    == 0       \* null (activeJobId, processingController.current, signal)

VARIABLES
    jobs,                  \* JobIds -> job record (present = FALSE: not in the list)
    created,               \* number of jobs created so far (the next id is created + 1)
    uploaded,              \* number of files put into jobs so far
    activeJobId,           \* NULL or a job id
    processingController,  \* NULL or the controller made by run r (named r)
    aborted,               \* controllers whose abort() was called
    runs,                  \* RunIds -> the driving loop started by the r-th startJob
    intervals,             \* intervals[j][k]: live setInterval tickers that address file k of job j
    processingOptions,     \* the options edited in the settings view
    fileInput,             \* the files held by the file input (sel[k]: name k ends in .dcm)
    call,                  \* processing engine: the call under way (NoCall: none)
    ret,                   \* processing engine: what the call has produced so far
    uploadedFiles,         \* upload view: FileIds -> file record (present = FALSE: not in the list)
    dropped,               \* upload view: number of files dropped so far
    isProcessing,          \* upload view: processFiles is under way
    selectedFile,          \* upload view: NULL or the file shown in the details view
    viewMode,              \* upload view: "upload" or "details"
    requests,              \* upload view: RequestIds -> a call of processFiles / processFileWithOptions
    progressIntervals      \* upload view: live setInterval tickers that address file k

uploadView == <<uploadedFiles, dropped, isProcessing, selectedFile, viewMode, requests,
                progressIntervals>>

vars == <<jobs, created, uploaded, activeJobId, processingController, aborted, runs, intervals,
          processingOptions, fileInput, call, ret,
          uploadedFiles, dropped, isProcessing, selectedFile, viewMode, requests,
          progressIntervals>>

\* ------------------------------------------------------------ data model
FileStatus == {"queued", "processing", "completed", "error", "paused"}
JobStatus  == {"idle", "running", "paused", "completed", "error"}

\* interface BatchFile: metadata and error are optional ("" = undefined)
NewFile == [status |-> "queued", progress |-> 0, metadata |-> "", error |-> ""]

\* useState<ProcessingOptions>({ anonymize: false, anonymize_mode: "pseudonymize",
\* remove_private_tags: false, output_formats: ["json"] }).  anonymize_tags is
\* a set of field names, {} when the field is absent (the settings view never
\* stores an empty list); anonymize_salt is a sequence of character codes,
\* <<>> when it is absent or empty (`salt || ...` treats both alike)
DefaultOptions == [anonymize |-> FALSE, anonymize_mode |-> "pseudonymize",
                   anonymize_tags |-> {}, anonymize_salt |-> <<>>,
                   remove_private_tags |-> FALSE]

\* a slot of the job list that holds no job
NoJob == [present |-> FALSE, status |-> "idle", progress |-> 0,
          hasStart |-> FALSE, hasEnd |-> FALSE, files |-> <<>>,
          processingOptions |-> DefaultOptions]

NoRun == [pc |-> "none", job |-> NULL, queue |-> <<>>, i |-> 0, sig |-> NULL,
          snapDone |-> 0, snapTotal |-> 0, options |-> DefaultOptions]

\* no call of the processing engine is under way
NoCall == [fn |-> "none"]

IsTerminal(f) == f.status \in {"completed", "error"}

\* Math.round(x * 100 / y) for integers x >= 0, y > 0 (round half up)
RoundPct(x, y) == (200 * x + y) \div (2 * y)

\* job.files.filter((f) => f.status === "completed" || f.status === "error").length
CountTerminal(files) == Cardinality({k \in 1..Len(files) : IsTerminal(files[k])})

\* job.files.filter((f) => f.status === "queued" || f.status === "paused"):
\* the positions of the eligible files, in insertion order, from position k on
RECURSIVE QueuedFrom(_, _)
QueuedFrom(files, k) ==
    IF k > Len(files) THEN <<>>
    ELSE (IF files[k].status \in {"queued", "paused"} THEN <<k>> ELSE <<>>)
         \o QueuedFrom(files, k + 1)

QueuedFiles(files) == QueuedFrom(files, 1)

\* ------------------------------------------------- the setJobs updaters
\* prev.map(j => j.id === jobId ? {...j, files: j.files.map(f => f.id === file.id ? Upd(f) : f)} : j)
\* a job that is no longer in the list is not found by the map: nothing changes
\* (f is the updated record of file k, read only when the job is found)
SetFile(js, j, k, f) ==
    IF js[j].present
    THEN [js EXCEPT ![j].files[k] = f]
    ELSE js

\* the file that run r awaits, as it is in the current job list
FileOf(js, j, k) == js[j].files[k]

\* { ...f, status: "processing", progress: 0, startTime: Date.now() }
FileProcessing(f) == [f EXCEPT !.status = "processing", !.progress = 0]

\* the ticker: f.status === "processing" ? { ...f, progress: Math.min(f.progress + 10, 90) } : f
FileTick(f) ==
    IF f.status = "processing"
    THEN [f EXCEPT !.progress = IF f.progress + 10 < 90 THEN f.progress + 10 ELSE 90]
    ELSE f

\* { ...f, status: "completed", progress: 100, metadata: result.metadata, ... }
FileCompleted(f) == [f EXCEPT !.status = "completed", !.progress = 100, !.metadata = "meta"]

\* the message taken from the response body without a fallback
ErrorMessageAsSent(body) == body

\* { ...f, status: "error", progress: 0, error: error.error || "Processing failed" }
\* body = the `error` member of the response body ("" when it has none)
ErrorMessage(body) == IF body = "" THEN "Processing failed" ELSE body

\* an error branch that leaves the progress of the file where the ticker put it
FileErrorKeepingProgress(f, msg) == [f EXCEPT !.status = "error", !.error = msg]

\* the error branches: { ...f, status: "error", progress: 0, error: msg }
FileErrorWith(f, msg) == [f EXCEPT !.status = "error", !.progress = 0, !.error = msg]

\* { ...f, status: "error", progress: 0, error: "Network error" }
FileNetworkError(f) == FileErrorWith(f, "Network error")

\* a catch block that does not tell the AbortError from other exceptions
FilePausedAsFailure(f) == [f EXCEPT !.status = "error", !.progress = 0, !.error = "Network error"]

\* the AbortError branch: { ...f, status: "paused", progress: 0 }
FilePaused(f) == [f EXCEPT !.status = "paused", !.progress = 0]

\* an updater that puts the job into the list when it is not there
SetJobOrInsert(js, j, job) == [js EXCEPT ![j] = [job EXCEPT !.present = TRUE]]

\* prev.map(j => j.id === jobId ? Upd(j) : j)
SetJob(js, j, job) == IF js[j].present THEN [js EXCEPT ![j] = job] ELSE js

\* { ...j, status: "running", startTime: Date.now() }
JobRunning(job) == [job EXCEPT !.status = "running", !.hasStart = TRUE]

\* { ...j, status: "paused" }
JobPaused(job) == [job EXCEPT !.status = "paused"]

\* a loop end that reports a failed file as a failure of the job
JobCompletedUnlessFileFailed(job) ==
    IF \E k \in 1..Len(job.files) : job.files[k].status = "error"
    THEN [job EXCEPT !.status = "error", !.progress = 100]
    ELSE [job EXCEPT !.status = "completed", !.hasEnd = TRUE, !.progress = 100]

\* "Mark job as completed": { ...j, status: "completed", endTime: Date.now(), progress: 100 }
JobCompleted(job) == [job EXCEPT !.status = "completed", !.hasEnd = TRUE, !.progress = 100]

\* "Update job progress": the count is taken on `jobs` of the closure, i.e. on the
\* job as it was when startJob was called (snapDone of snapTotal files terminal)
JobProgressValue(run) == RoundPct(run.snapDone, run.snapTotal)

UpdateJobProgress(js, run) ==
    SetJob(js, run.job, [js[run.job] EXCEPT !.progress = JobProgressValue(run)])

\* interface UploadedFile of the simple upload view
NoUpload  == [present |-> FALSE, status |-> "pending", progress |-> 0, metadata |-> "", error |-> ""]
NewUpload == [NoUpload EXCEPT !.present = TRUE]
NoRequest == [fn |-> "none", pc |-> "none", queue |-> <<>>, i |-> 0]

\* FileUpload, the component that hosts the dashboard, after construction
InitUploadView ==
    /\ uploadedFiles = [k \in FileIds |-> NoUpload]
    /\ dropped = 0
    /\ isProcessing = FALSE
    /\ selectedFile = NULL
    /\ viewMode = "upload"
    /\ requests = [c \in RequestIds |-> NoRequest]
    /\ progressIntervals = [k \in FileIds |-> 0]

InitDashboard ==
    /\ jobs = [j \in JobIds |-> NoJob]
    /\ created = 0
    /\ uploaded = 0
    /\ activeJobId = NULL
    /\ processingController = NULL
    /\ aborted = {}
    /\ runs = [r \in RunIds |-> NoRun]
    /\ intervals = [j \in JobIds |-> [k \in 1..MaxFiles |-> 0]]
    /\ processingOptions = DefaultOptions
    /\ fileInput = <<>>
    /\ InitUploadView

Init ==
    /\ InitDashboard
    /\ call = NoCall
    /\ ret = NoCall

\* ------------------------------------------------------------ job creation
\* createNewJob(files): every file queued at progress 0, the job idle at progress 0,
\* processingOptions: { ...processingOptions }
NewJob(n) == [present |-> TRUE, status |-> "idle", progress |-> 0,
              hasStart |-> FALSE, hasEnd |-> FALSE, files |-> [k \in 1..n |-> NewFile],
              processingOptions |-> processingOptions]

CreateNewJob(n) ==
    /\ created < MaxJobs
    /\ uploaded + n <= MaxUploaded
    /\ created' = created + 1
    /\ uploaded' = uploaded + n
    /\ jobs' = [jobs EXCEPT ![created + 1] = NewJob(n)]

\* files.filter((file) => file.name.toLowerCase().endsWith(".dcm")).length;
\* sel[k] = TRUE when the name of the k-th selected file ends in .dcm
ValidFiles(sel) == Cardinality({k \in 1..Len(sel) : sel[k]})

Selections == UNION {[1..n -> BOOLEAN] : n \in 0..MaxFiles}

\* handleFileUpload: the change event of the file input, which holds the
\* files sel; at the end the input is reset
HandleFileUpload(sel) ==
    /\ IF Len(sel) > 0 /\ ValidFiles(sel) > 0
       THEN CreateNewJob(ValidFiles(sel))
       ELSE UNCHANGED <<jobs, created, uploaded>>
    /\ fileInput' = <<>>
    /\ UNCHANGED <<activeJobId, processingController, aborted, runs, intervals>>
    /\ UNCHANGED <<processingOptions, call, ret>>
    /\ UNCHANGED uploadView

\* ------------------------------------------------------- the driving loop
\* the head of the for loop: i < queuedFiles.length, then
\* if (processingController.current?.signal.aborted) break
LoopStops(run, i, ctrl) == i > Len(run.queue) \/ (ctrl # NULL /\ ctrl \in aborted)

\* setInterval(...) / clearInterval(progressInterval) for file k of job j
AddInterval(ivs, j, k) == [ivs EXCEPT ![j][k] = @ + 1]
ClearInterval(ivs, j, k) == [ivs EXCEPT ![j][k] = @ - 1]

\* Run r (record run) is at the head of its loop with index i; js and ivs are the
\* job list and the tickers as the segment has left them so far, act and ctrl the
\* slot and the controller.  Either the loop is left (the job is marked completed
\* and the finally block clears the slot and the controller) or the next file is
\* set to processing, its ticker started and its request sent with the signal of
\* the controller that is current now.
EnterLoop(r, run, js, ivs, i, act, ctrl) ==
    IF LoopStops(run, i, ctrl)
    THEN /\ jobs' = SetJob(js, run.job, JobCompleted(js[run.job]))
         /\ runs' = [runs EXCEPT ![r] = [NoRun EXCEPT !.pc = "done", !.job = run.job]]
         /\ intervals' = ivs
         /\ activeJobId' = NULL
         /\ processingController' = NULL
    ELSE /\ jobs' = SetFile(js, run.job, run.queue[i], FileProcessing(FileOf(js, run.job, run.queue[i])))
         /\ runs' = [runs EXCEPT ![r] = [run EXCEPT !.pc = "fetch", !.i = i, !.sig = ctrl]]
         /\ intervals' = AddInterval(ivs, run.job, run.queue[i])
         /\ activeJobId' = act
         /\ processingController' = ctrl

\* after the inner try/catch of run r: "Update job progress", i++, loop head
NextFile(r, js, ivs) ==
    EnterLoop(r, runs[r], UpdateJobProgress(js, runs[r]), ivs, runs[r].i + 1,
              activeJobId, processingController)

\* --------------------------------------------------------------- startJob
\* the Start/Resume button is rendered for an idle or paused job and is
\* disabled while another job holds the slot
StartButton(j) ==
    /\ jobs[j].present
    /\ jobs[j].status \in {"idle", "paused"}
    /\ ~(activeJobId # NULL /\ activeJobId # j)

\* if (!job || job.status === "running") return
StartJobGuard(j) == jobs[j].present /\ jobs[j].status # "running"

\* the options sent with every request of the loop: JSON.stringify(job.processingOptions)
\* of the `job` found when startJob was called; a loop that would send the
\* options of the settings view instead is RequestOptionsOfSettings
RequestOptionsOfSettings(j) == processingOptions

RequestOptions(j) == jobs[j].processingOptions

NextRun == Cardinality({r \in RunIds : runs[r].pc # "none"}) + 1

\* startJob(jobId) up to its first await
StartJob(j) ==
    /\ StartButton(j)
    /\ StartJobGuard(j)
    /\ NextRun <= MaxRuns
    /\ LET r   == NextRun
           run == [pc |-> "fetch", job |-> j, queue |-> QueuedFiles(jobs[j].files),
                   i |-> 0, sig |-> NULL,
                   snapDone |-> CountTerminal(jobs[j].files),
                   snapTotal |-> Len(jobs[j].files),
                   options |-> RequestOptions(j)]
       IN  EnterLoop(r, run, SetJob(jobs, j, JobRunning(jobs[j])), intervals, 1, j, r)
    /\ UNCHANGED <<created, uploaded, aborted>>
    /\ UNCHANGED <<processingOptions, fileInput, call, ret>>
    /\ UNCHANGED uploadView

\* --------------------------------------------------------------- pauseJob
\* the Pause button is rendered for a running job
PauseButton(j) == jobs[j].present /\ jobs[j].status = "running"

\* if (processingController.current) processingController.current.abort()
AbortCurrent == IF processingController # NULL
                THEN aborted \cup {processingController}
                ELSE aborted

PauseJob(j) ==
    /\ PauseButton(j)
    /\ aborted' = AbortCurrent
    /\ jobs' = SetJob(jobs, j, JobPaused(jobs[j]))
    /\ activeJobId' = NULL
    /\ UNCHANGED <<created, uploaded, processingController, runs, intervals>>
    /\ UNCHANGED <<processingOptions, fileInput, call, ret>>
    /\ UNCHANGED uploadView

\* -------------------------------------------------------------- deleteJob
\* the Delete button is disabled while the job is running
DeleteButton(j) == jobs[j].present /\ jobs[j].status # "running"

\* prev.filter((j) => j.id !== jobId)
RemoveJob(js, j) == [js EXCEPT ![j] = NoJob]

DeleteJob(j) ==
    /\ DeleteButton(j)
    /\ IF activeJobId = j
       THEN /\ aborted' = AbortCurrent
            /\ activeJobId' = NULL
       ELSE UNCHANGED <<aborted, activeJobId>>
    /\ jobs' = RemoveJob(jobs, j)
    /\ UNCHANGED <<created, uploaded, processingController, runs, intervals>>
    /\ UNCHANGED <<processingOptions, fileInput, call, ret>>
    /\ UNCHANGED uploadView

\* ------------------------------------------- the answers of the requests
Pending(r, pcs) == runs[r].pc \in pcs
CurFile(r) == runs[r].queue[runs[r].i]
CurRecord(r) == FileOf(jobs, runs[r].job, CurFile(r))
SignalAborted(r) == runs[r].sig # NULL /\ runs[r].sig \in aborted

\* `await fetch` resolves with a response (ok or not): clearInterval, then the
\* loop suspends again at `await response.json()`
FetchResponds(r, ok) ==
    /\ Pending(r, {"fetch"})
    /\ ~SignalAborted(r)
    /\ runs' = [runs EXCEPT ![r].pc = IF ok THEN "jsonOk" ELSE "jsonErr"]
    /\ intervals' = ClearInterval(intervals, runs[r].job, CurFile(r))
    /\ UNCHANGED <<jobs, created, uploaded, activeJobId, processingController, aborted>>
    /\ UNCHANGED <<processingOptions, fileInput, call, ret>>
    /\ UNCHANGED uploadView

\* `await response.json()` of an OK response resolves: the file is completed
JsonOk(r) ==
    /\ Pending(r, {"jsonOk"})
    /\ ~SignalAborted(r)
    /\ NextFile(r, SetFile(jobs, runs[r].job, CurFile(r), FileCompleted(CurRecord(r))), intervals)
    /\ UNCHANGED <<created, uploaded, aborted>>
    /\ UNCHANGED <<processingOptions, fileInput, call, ret>>
    /\ UNCHANGED uploadView

\* `await response.json()` of a non-OK response resolves: the file is in error
ErrorBodies == {"", "Invalid DICOM file"}

JsonErr(r, body) ==
    /\ Pending(r, {"jsonErr"})
    /\ ~SignalAborted(r)
    /\ NextFile(r, SetFile(jobs, runs[r].job, CurFile(r),
                            FileErrorWith(CurRecord(r), ErrorMessage(body))), intervals)
    /\ UNCHANGED <<created, uploaded, aborted>>
    /\ UNCHANGED <<processingOptions, fileInput, call, ret>>
    /\ UNCHANGED uploadView

\* an awaited promise rejects with an AbortError: the signal the request was
\* sent with has been aborted.  The catch block sets the file to paused; a
\* ticker that is still running is not cleared.
RequestAborted(r) ==
    /\ Pending(r, {"fetch", "jsonOk", "jsonErr"})
    /\ SignalAborted(r)
    /\ NextFile(r, SetFile(jobs, runs[r].job, CurFile(r), FilePaused(CurRecord(r))), intervals)
    /\ UNCHANGED <<created, uploaded, aborted>>
    /\ UNCHANGED <<processingOptions, fileInput, call, ret>>
    /\ UNCHANGED uploadView

\* an awaited promise rejects with another error (the network fails, the body
\* is no JSON): the catch block sets the file to error "Network error"
RequestFails(r) ==
    /\ Pending(r, {"fetch", "jsonOk", "jsonErr"})
    /\ ~SignalAborted(r)
    /\ NextFile(r, SetFile(jobs, runs[r].job, CurFile(r), FileNetworkError(CurRecord(r))), intervals)
    /\ UNCHANGED <<created, uploaded, aborted>>
    /\ UNCHANGED <<processingOptions, fileInput, call, ret>>
    /\ UNCHANGED uploadView

\* a live ticker of file k of job j fires
Tick(j, k) ==
    /\ intervals[j][k] > 0
    /\ jobs[j].present
    /\ jobs[j].files[k].status = "processing"
    /\ jobs[j].files[k].progress < 10 * MaxTicks
    /\ jobs' = SetFile(jobs, j, k, FileTick(FileOf(jobs, j, k)))
    /\ UNCHANGED <<created, uploaded, activeJobId, processingController, aborted, runs, intervals>>
    /\ UNCHANGED <<processingOptions, fileInput, call, ret>>
    /\ UNCHANGED uploadView

Next ==
    \/ \E sel \in Selections : HandleFileUpload(sel)
    \/ \E j \in JobIds : StartJob(j)
    \/ \E j \in JobIds : PauseJob(j)
    \/ \E j \in JobIds : DeleteJob(j)
    \/ \E r \in RunIds : \E ok \in BOOLEAN : FetchResponds(r, ok)
    \/ \E r \in RunIds : JsonOk(r)
    \/ \E r \in RunIds : \E body \in ErrorBodies : JsonErr(r, body)
    \/ \E r \in RunIds : RequestAborted(r)
    \/ \E r \in RunIds : RequestFails(r)
    \/ \E j \in JobIds : \E k \in 1..MaxFiles : Tick(j, k)

Spec == Init /\ [][Next]_vars

\* ------------------------------------------- a failure of the loop itself
\* Nothing that startJob runs outside its inner try/catch throws of its own, so
\* the outer catch is reached only by a failure of the runtime.  The model
\* lets such a failure strike in "Update job progress", right after a file
\* has been completed.

\* a catch block that leaves the job as it is
JobFailedUnmarked(job) == job

\* "Mark job as error": { ...j, status: "error" }
JobFailed(job) == [job EXCEPT !.status = "error"]

\* catch (error) { "Mark job as error" } finally { setActiveJobId(null);
\* processingController.current = null }
OuterCatch(r, js, ivs) ==
    /\ jobs' = SetJob(js, runs[r].job, JobFailed(js[runs[r].job]))
    /\ runs' = [runs EXCEPT ![r] = [NoRun EXCEPT !.pc = "failed", !.job = runs[r].job]]
    /\ intervals' = ivs
    /\ activeJobId' = NULL
    /\ processingController' = NULL

ProgressUpdateThrows(r) ==
    /\ Pending(r, {"jsonOk"})
    /\ ~SignalAborted(r)
    /\ OuterCatch(r, SetFile(jobs, runs[r].job, CurFile(r), FileCompleted(CurRecord(r))), intervals)
    /\ UNCHANGED <<created, uploaded, aborted>>
    /\ UNCHANGED <<processingOptions, fileInput, call, ret>>
    /\ UNCHANGED uploadView

\* the dashboard with such failures
NextFaults ==
    \/ Next
    \/ \E r \in RunIds : ProgressUpdateThrows(r)

SpecFaults == Init /\ [][NextFaults]_vars

\* ------------------------------------------------------ the settings view
\* <AnonymizationSettings options={processingOptions} onChange={setProcessingOptions} />:
\* every edit replaces the options by a new object
SettingsChoices == {[DefaultOptions EXCEPT !.anonymize = a] : a \in BOOLEAN}

SetProcessingOptions(o) ==
    /\ o # processingOptions
    /\ processingOptions' = o
    /\ UNCHANGED <<jobs, created, uploaded, activeJobId, processingController, aborted,
                   runs, intervals, fileInput, call, ret>>
    /\ UNCHANGED uploadView

\* the dashboard together with its settings view; the tickers, which write
\* nothing but the progress of a file, are left out
NextOptions ==
    \/ \E sel \in Selections : HandleFileUpload(sel)
    \/ \E j \in JobIds : StartJob(j)
    \/ \E j \in JobIds : PauseJob(j)
    \/ \E j \in JobIds : DeleteJob(j)
    \/ \E r \in RunIds : \E ok \in BOOLEAN : FetchResponds(r, ok)
    \/ \E r \in RunIds : JsonOk(r)
    \/ \E r \in RunIds : \E body \in ErrorBodies : JsonErr(r, body)
    \/ \E r \in RunIds : RequestAborted(r)
    \/ \E r \in RunIds : RequestFails(r)
    \/ \E o \in SettingsChoices : SetProcessingOptions(o)

SpecOptions == Init /\ [][NextOptions]_vars

\* ------------------------------------------------------ the file dialog
\* the user picks the files sel in the dialog of the hidden file input
PickFiles(sel) ==
    /\ fileInput = <<>>
    /\ fileInput' = sel
    /\ UNCHANGED <<jobs, created, uploaded, activeJobId, processingController, aborted,
                   runs, intervals, processingOptions, call, ret>>
    /\ UNCHANGED uploadView

\* the upload path on its own: pick files, then the change event of the input
NextUpload ==
    \/ \E sel \in Selections : PickFiles(sel)
    \/ HandleFileUpload(fileInput)

SpecUpload == Init /\ [][NextUpload]_vars

\* ================================================== the simple upload view
\* The options sent with a request take no part in the status of a file and
\* are left out.
dashboardVars == <<jobs, created, uploaded, activeJobId, processingController, aborted, runs,
                   intervals, processingOptions, fileInput, call, ret>>

\* prev.map((f) => (f.id === id ? Upd(f) : f)): a removed file is not found
SetUpload(fs, k, f) == IF fs[k].present THEN [fs EXCEPT ![k] = f] ELSE fs

\* { ...f, status: "processing", progress: 0 }
UploadProcessing(f) == [f EXCEPT !.status = "processing", !.progress = 0]

\* { ...f, status: "completed", progress: 100, metadata: result.metadata, ... }
UploadCompleted(f) == [f EXCEPT !.status = "completed", !.progress = 100, !.metadata = "meta"]

\* { ...f, status: "error", progress: 0, error: msg }
UploadError(f, msg) == [f EXCEPT !.status = "error", !.progress = 0, !.error = msg]

\* uploadedFiles.filter((f) => f.status === "pending"), from file k on
RECURSIVE PendingFrom(_, _)
PendingFrom(fs, k) ==
    IF k > MaxDropped THEN <<>>
    ELSE (IF fs[k].present /\ fs[k].status = "pending" THEN <<k>> ELSE <<>>)
         \o PendingFrom(fs, k + 1)

PendingFiles(fs) == PendingFrom(fs, 1)

NextRequest == Cardinality({c \in RequestIds : requests[c].pc # "none"}) + 1

\* onDrop: n accepted files are appended as pending
OnDrop(n) ==
    /\ viewMode = "upload"
    /\ dropped + n <= MaxDropped
    /\ dropped' = dropped + n
    /\ uploadedFiles' = [k \in FileIds |->
                            IF k \in (dropped + 1)..(dropped + n) THEN NewUpload
                            ELSE uploadedFiles[k]]
    /\ UNCHANGED <<isProcessing, selectedFile, viewMode, requests, progressIntervals>>
    /\ UNCHANGED dashboardVars

\* removeFile; its button is disabled while the file is in processing
RemoveFile(k) ==
    /\ viewMode = "upload"
    /\ uploadedFiles[k].present
    /\ uploadedFiles[k].status # "processing"
    /\ uploadedFiles' = [uploadedFiles EXCEPT ![k] = NoUpload]
    /\ selectedFile' = IF selectedFile = k THEN NULL ELSE selectedFile
    /\ UNCHANGED <<dropped, isProcessing, viewMode, requests, progressIntervals>>
    /\ UNCHANGED dashboardVars

\* The loop of processFiles (call c, record req) is at the head of the for
\* loop with index i; fs and ivs are the files and tickers as the segment has
\* left them.  Either the loop ends (setIsProcessing(false)) or the next file
\* is set to processing, its ticker is started and its request is sent.
UploadLoop(c, req, fs, ivs, i, busy) ==
    IF i > Len(req.queue)
    THEN /\ uploadedFiles' = fs
         /\ requests' = [requests EXCEPT ![c] = [NoRequest EXCEPT !.fn = req.fn, !.pc = "done"]]
         /\ progressIntervals' = ivs
         /\ isProcessing' = FALSE
    ELSE /\ uploadedFiles' = SetUpload(fs, req.queue[i], UploadProcessing(fs[req.queue[i]]))
         /\ requests' = [requests EXCEPT ![c] = [req EXCEPT !.pc = "fetch", !.i = i]]
         /\ progressIntervals' = [ivs EXCEPT ![req.queue[i]] = @ + 1]
         /\ isProcessing' = busy

\* processFiles up to its first await; the button is disabled while
\* isProcessing or when no file is pending
ProcessFiles ==
    /\ viewMode = "upload"
    /\ ~isProcessing
    /\ \E k \in FileIds : uploadedFiles[k].present /\ uploadedFiles[k].status = "pending"
    /\ NextRequest <= MaxRequests
    /\ UploadLoop(NextRequest,
                  [fn |-> "processFiles", pc |-> "fetch", queue |-> PendingFiles(uploadedFiles), i |-> 0],
                  uploadedFiles, progressIntervals, 1, TRUE)
    /\ UNCHANGED <<dropped, selectedFile, viewMode>>
    /\ UNCHANGED dashboardVars

Awaits(c, fn, pcs) == requests[c].fn = fn /\ requests[c].pc \in pcs
UploadOf(c) == requests[c].queue[requests[c].i]

\* processFiles: `await fetch` resolves with a response: clearInterval, then
\* the loop suspends at `await response.json()`
ProcessFilesResponds(c, ok) ==
    /\ Awaits(c, "processFiles", {"fetch"})
    /\ requests' = [requests EXCEPT ![c].pc = IF ok THEN "jsonOk" ELSE "jsonErr"]
    /\ progressIntervals' = [progressIntervals EXCEPT ![UploadOf(c)] = @ - 1]
    /\ UNCHANGED <<uploadedFiles, dropped, isProcessing, selectedFile, viewMode>>
    /\ UNCHANGED dashboardVars

\* processFiles: the body of an OK response is read: the file is completed
ProcessFilesJsonOk(c) ==
    /\ Awaits(c, "processFiles", {"jsonOk"})
    /\ UploadLoop(c, requests[c],
                  SetUpload(uploadedFiles, UploadOf(c), UploadCompleted(uploadedFiles[UploadOf(c)])),
                  progressIntervals, requests[c].i + 1, isProcessing)
    /\ UNCHANGED <<dropped, selectedFile, viewMode>>
    /\ UNCHANGED dashboardVars

\* processFiles: the body of a non-OK response is read: the file is failed
\* with error.error || "Processing failed"
ProcessFilesJsonErr(c, body) ==
    /\ Awaits(c, "processFiles", {"jsonErr"})
    /\ UploadLoop(c, requests[c],
                  SetUpload(uploadedFiles, UploadOf(c),
                            UploadError(uploadedFiles[UploadOf(c)], ErrorMessage(body))),
                  progressIntervals, requests[c].i + 1, isProcessing)
    /\ UNCHANGED <<dropped, selectedFile, viewMode>>
    /\ UNCHANGED dashboardVars

\* processFiles: an awaited promise rejects: the catch block fails the file
\* with "Network error"; a ticker that is still running is not cleared
ProcessFilesThrows(c) ==
    /\ Awaits(c, "processFiles", {"fetch", "jsonOk", "jsonErr"})
    /\ UploadLoop(c, requests[c],
                  SetUpload(uploadedFiles, UploadOf(c),
                            UploadError(uploadedFiles[UploadOf(c)], "Network error")),
                  progressIntervals, requests[c].i + 1, isProcessing)
    /\ UNCHANGED <<dropped, selectedFile, viewMode>>
    /\ UNCHANGED dashboardVars

\* a live ticker of file k fires: Math.min(f.progress + 10, 90) for a file in processing
UploadTick(k) ==
    /\ progressIntervals[k] > 0
    /\ uploadedFiles[k].present
    /\ uploadedFiles[k].status = "processing"
    /\ uploadedFiles[k].progress < 10 * MaxTicks
    /\ uploadedFiles' = [uploadedFiles EXCEPT ![k] = FileTick(uploadedFiles[k])]
    /\ UNCHANGED <<dropped, isProcessing, selectedFile, viewMode, requests, progressIntervals>>
    /\ UNCHANGED dashboardVars

\* handleViewFile; its button is rendered for a completed file with metadata
HandleViewFile(k) ==
    /\ viewMode = "upload"
    /\ uploadedFiles[k].present
    /\ uploadedFiles[k].status = "completed"
    /\ uploadedFiles[k].metadata # ""
    /\ selectedFile' = k
    /\ viewMode' = "details"
    /\ UNCHANGED <<uploadedFiles, dropped, isProcessing, requests, progressIntervals>>
    /\ UNCHANGED dashboardVars

\* onBack of the details view
OnBack ==
    /\ viewMode = "details"
    /\ selectedFile # NULL
    /\ selectedFile' = NULL
    /\ viewMode' = "upload"
    /\ UNCHANGED <<uploadedFiles, dropped, isProcessing, requests, progressIntervals>>
    /\ UNCHANGED dashboardVars

\* onAnonymize of the details view: processFileWithOptions(selectedFile, options)
\* up to its await, then setViewMode("upload")
OnAnonymize ==
    /\ viewMode = "details"
    /\ selectedFile # NULL
    /\ NextRequest <= MaxRequests
    /\ uploadedFiles' = SetUpload(uploadedFiles, selectedFile,
                                  UploadProcessing(uploadedFiles[selectedFile]))
    /\ requests' = [requests EXCEPT ![NextRequest] =
                       [fn |-> "processFileWithOptions", pc |-> "fetch",
                        queue |-> <<selectedFile>>, i |-> 1]]
    /\ viewMode' = "upload"
    /\ UNCHANGED <<dropped, isProcessing, selectedFile, progressIntervals>>
    /\ UNCHANGED dashboardVars

\* processFileWithOptions: `await fetch` resolves; an OK response is read next,
\* for another response the function has no branch and returns
WithOptionsResponds(c, ok) ==
    /\ Awaits(c, "processFileWithOptions", {"fetch"})
    /\ requests' = [requests EXCEPT ![c] =
                       IF ok THEN [@ EXCEPT !.pc = "jsonOk"]
                       ELSE [NoRequest EXCEPT !.fn = "processFileWithOptions", !.pc = "done"]]
    /\ UNCHANGED <<uploadedFiles, dropped, isProcessing, selectedFile, viewMode, progressIntervals>>
    /\ UNCHANGED dashboardVars

\* processFileWithOptions: the body of the OK response is read: the file is completed
WithOptionsJsonOk(c) ==
    /\ Awaits(c, "processFileWithOptions", {"jsonOk"})
    /\ uploadedFiles' = SetUpload(uploadedFiles, UploadOf(c), UploadCompleted(uploadedFiles[UploadOf(c)]))
    /\ requests' = [requests EXCEPT ![c] =
                       [NoRequest EXCEPT !.fn = "processFileWithOptions", !.pc = "done"]]
    /\ UNCHANGED <<dropped, isProcessing, selectedFile, viewMode, progressIntervals>>
    /\ UNCHANGED dashboardVars

\* processFileWithOptions: an awaited promise rejects: console.error, nothing else
WithOptionsThrows(c) ==
    /\ Awaits(c, "processFileWithOptions", {"fetch", "jsonOk"})
    /\ requests' = [requests EXCEPT ![c] =
                       [NoRequest EXCEPT !.fn = "processFileWithOptions", !.pc = "done"]]
    /\ UNCHANGED <<uploadedFiles, dropped, isProcessing, selectedFile, viewMode, progressIntervals>>
    /\ UNCHANGED dashboardVars

\* the request of call c is answered or fails
Answered(c) ==
    \/ \E ok \in BOOLEAN : ProcessFilesResponds(c, ok)
    \/ ProcessFilesJsonOk(c)
    \/ \E body \in ErrorBodies : ProcessFilesJsonErr(c, body)
    \/ ProcessFilesThrows(c)
    \/ \E ok \in BOOLEAN : WithOptionsResponds(c, ok)
    \/ WithOptionsJsonOk(c)
    \/ WithOptionsThrows(c)

NextUploadView ==
    \/ \E n \in 1..MaxDropped : OnDrop(n)
    \/ \E k \in FileIds : RemoveFile(k)
    \/ ProcessFiles
    \/ \E k \in FileIds : UploadTick(k)
    \/ \E k \in FileIds : HandleViewFile(k)
    \/ OnBack
    \/ OnAnonymize
    \/ \E c \in RequestIds : Answered(c)

SpecUploadView == Init /\ [][NextUploadView]_vars

\* every request that was sent is answered or fails in the end
FairUploadView == SpecUploadView /\ \A c \in RequestIds : WF_vars(Answered(c))

\* ================================================== the processing engine
\* Strings the engine computes with are sequences of character codes.
PatientIdValue   == <<80, 65, 84, 73, 69, 78, 84, 95, 48, 48, 49>>             \* "PATIENT_001"
PatientNameValue == <<74, 111, 104, 110, 32, 68, 111, 101>>                     \* "John Doe"
PatientAgeValue  == <<52, 53, 89>>                                              \* "45Y"
DefaultSalt      == <<100, 101, 102, 97, 117, 108, 116, 95, 115, 97, 108, 116>> \* "default_salt"
AnonPrefix       == <<97, 110, 111, 110, 95>>                                   \* "anon_"
Redacted         == <<82, 69, 68, 65, 67, 84, 69, 68>>                          \* "REDACTED"

\* the values processDicomFile hands to generatePseudonym
EngineValues == {PatientIdValue, PatientNameValue}

\* salts: strings over "a", "b" and the euro sign (no Latin-1 character)
MaxSaltLen == 2
SaltChars  == {97, 98, 8364}
Salts      == UNION {[1..n -> SaltChars] : n \in 0..MaxSaltLen}

\* btoa throws an InvalidCharacterError on a character outside Latin-1
Latin1Max == 255
BtoaThrows(str) == \E i \in 1..Len(str) : str[i] > Latin1Max

\* the character of the base64 alphabet for the sextet n
B64Char(n) ==
    IF n < 26 THEN 65 + n
    ELSE IF n < 52 THEN 97 + (n - 26)
    ELSE IF n < 62 THEN 48 + (n - 52)
    ELSE IF n = 62 THEN 43 ELSE 47

\* btoa(str): three bytes give four characters, the rest is padded with "="
RECURSIVE Btoa(_)
Btoa(str) ==
    IF Len(str) = 0 THEN <<>>
    ELSE IF Len(str) = 1
    THEN <<B64Char(str[1] \div 4), B64Char((str[1] % 4) * 16), 61, 61>>
    ELSE IF Len(str) = 2
    THEN <<B64Char(str[1] \div 4), B64Char((str[1] % 4) * 16 + str[2] \div 16),
           B64Char((str[2] % 16) * 4), 61>>
    ELSE <<B64Char(str[1] \div 4), B64Char((str[1] % 4) * 16 + str[2] \div 16),
           B64Char((str[2] % 16) * 4 + str[3] \div 64), B64Char(str[3] % 64)>>
         \o Btoa(SubSeq(str, 4, Len(str)))

\* str.slice(0, n)
Slice(str, n) == SubSeq(str, 1, IF Len(str) < n THEN Len(str) ELSE n)

\* const actualSalt = salt || "default_salt"
ActualSalt(salt) == IF salt = <<>> THEN DefaultSalt ELSE salt

HashLength == 12

\* a pseudonym that keeps the whole encoding
GeneratePseudonymUncut(value, salt) == AnonPrefix \o Btoa(value \o ActualSalt(salt))

\* generatePseudonym(value, salt): `anon_${btoa(value + actualSalt).slice(0, 12)}`
GeneratePseudonym(value, salt) ==
    AnonPrefix \o Slice(Btoa(value \o ActualSalt(salt)), HashLength)

\* generatePseudonym throws when btoa does
PseudonymThrows(value, salt) == BtoaThrows(value \o ActualSalt(salt))

\* ---- generatePseudonym on its own: one value under two salts
InitPseudonym ==
    /\ InitDashboard
    /\ call \in {[fn |-> "generatePseudonym", value |-> v, salt |-> s1, salt2 |-> s2] :
                    v \in EngineValues, s1 \in Salts, s2 \in Salts}
    /\ ret = NoCall

GeneratePseudonymReturns ==
    /\ call.fn = "generatePseudonym"
    /\ ret = NoCall
    /\ ~PseudonymThrows(call.value, call.salt)
    /\ ~PseudonymThrows(call.value, call.salt2)
    /\ ret' = [fn |-> "generatePseudonym",
               p  |-> GeneratePseudonym(call.value, call.salt),
               p2 |-> GeneratePseudonym(call.value, call.salt2)]
    /\ UNCHANGED <<jobs, created, uploaded, activeJobId, processingController, aborted,
                   runs, intervals, processingOptions, fileInput, call>>
    /\ UNCHANGED uploadView

GeneratePseudonymThrows ==
    /\ call.fn = "generatePseudonym"
    /\ ret = NoCall
    /\ PseudonymThrows(call.value, call.salt) \/ PseudonymThrows(call.value, call.salt2)
    /\ ret' = [fn |-> "throw"]
    /\ UNCHANGED <<jobs, created, uploaded, activeJobId, processingController, aborted,
                   runs, intervals, processingOptions, fileInput, call>>
    /\ UNCHANGED uploadView

NextPseudonym == GeneratePseudonymReturns \/ GeneratePseudonymThrows

SpecPseudonym == InitPseudonym /\ [][NextPseudonym]_vars

\* ---- generatePseudonym on its own: two values under one salt
OtherPatientId   == <<80, 65, 84, 73, 69, 78, 84, 95, 48, 48, 50>>             \* "PATIENT_002"
OtherPatientName == <<74, 97, 110, 101, 32, 68, 111, 101>>                      \* "Jane Doe"
PatientValues == EngineValues \cup {OtherPatientId, OtherPatientName}

InitTwoValues ==
    /\ InitDashboard
    /\ call \in {[fn |-> "generatePseudonym", value |-> v1, value2 |-> v2, salt |-> s] :
                    v1 \in PatientValues, v2 \in PatientValues, s \in Salts}
    /\ ret = NoCall

TwoValuesReturn ==
    /\ call.fn = "generatePseudonym"
    /\ ret = NoCall
    /\ ~PseudonymThrows(call.value, call.salt)
    /\ ~PseudonymThrows(call.value2, call.salt)
    /\ ret' = [fn |-> "generatePseudonym",
               p  |-> GeneratePseudonym(call.value, call.salt),
               p2 |-> GeneratePseudonym(call.value2, call.salt)]
    /\ UNCHANGED <<jobs, created, uploaded, activeJobId, processingController, aborted,
                   runs, intervals, processingOptions, fileInput, call>>
    /\ UNCHANGED uploadView

TwoValuesThrow ==
    /\ call.fn = "generatePseudonym"
    /\ ret = NoCall
    /\ PseudonymThrows(call.value, call.salt) \/ PseudonymThrows(call.value2, call.salt)
    /\ ret' = [fn |-> "throw"]
    /\ UNCHANGED <<jobs, created, uploaded, activeJobId, processingController, aborted,
                   runs, intervals, processingOptions, fileInput, call>>
    /\ UNCHANGED uploadView

NextTwoValues == TwoValuesReturn \/ TwoValuesThrow

SpecTwoValues == InitTwoValues /\ [][NextTwoValues]_vars

\* ---- processDicomFile
FileNames  == {"ct_head.dcm", "scan.dcm"}
TagChoices == {{}, {"patient_age"}, {"patient_id"}}
ModeChoices == {"pseudonymize", "remove"}

EngineOptions ==
    [anonymize : BOOLEAN, anonymize_mode : ModeChoices, anonymize_tags : TagChoices,
     anonymize_salt : Salts, remove_private_tags : BOOLEAN]

\* phi_removed: options.anonymize ? "YES" : "NO"
PhiRemoved(options) == IF options.anonymize THEN "YES" ELSE "NO"

\* an engine that reports the flags it found whether or not it anonymizes
PhiFlagsAsFound(options) == <<"PatientName", "PatientID">>

\* phi_flags: options.anonymize ? [] : ["PatientName", "PatientID"]
PhiFlags(options) == IF options.anonymize THEN <<>> ELSE <<"PatientName", "PatientID">>

\* the fields of mockMetadata that the options, the tag lists or the summary
\* refer to (the other fields are literals, a clock reading or a random UID).
\* checkUrgency(modality, "Routine examination") is false for every modality:
\* the description holds no urgent keyword and no "head".
MockMetadata(options) ==
    [patient_id   |-> IF options.anonymize
                      THEN GeneratePseudonym(PatientIdValue, options.anonymize_salt)
                      ELSE PatientIdValue,
     patient_name |-> IF options.anonymize
                      THEN GeneratePseudonym(PatientNameValue, options.anonymize_salt)
                      ELSE PatientNameValue,
     patient_age  |-> PatientAgeValue,
     phi_removed  |-> PhiRemoved(options),
     phi_flags    |-> PhiFlags(options),
     urgent       |-> FALSE,
     private_tags |-> <<>>]

\* a result without metadata
NoMetadata == [none |-> TRUE]

\* processDicomFile(fileBuffer, fileName, options): the catch block turns the
\* exception of btoa into a result with success: false and error: error.message
ProcessDicomFile(fileName, options) ==
    IF options.anonymize /\ PseudonymThrows(PatientIdValue, options.anonymize_salt)
    THEN [success |-> FALSE, metadata |-> NoMetadata, error |-> "Invalid character",
          file_path |-> fileName]
    ELSE [success |-> TRUE, metadata |-> MockMetadata(options), error |-> "",
          file_path |-> fileName]

InitProcess ==
    /\ InitDashboard
    /\ call \in {[fn |-> "processDicomFile", fileName |-> n, options |-> o] :
                    n \in FileNames, o \in EngineOptions}
    /\ ret = NoCall

ProcessDicomFileReturns ==
    /\ call.fn = "processDicomFile"
    /\ ret = NoCall
    /\ ret' = [fn |-> "processDicomFile", result |-> ProcessDicomFile(call.fileName, call.options)]
    /\ UNCHANGED <<jobs, created, uploaded, activeJobId, processingController, aborted,
                   runs, intervals, processingOptions, fileInput, call>>
    /\ UNCHANGED uploadView

NextProcess == ProcessDicomFileReturns

SpecProcess == InitProcess /\ [][NextProcess]_vars

\* ---- processBatchFiles(files, options)
MaxBatch == 2
BatchInputs == UNION {[1..n -> FileNames] : n \in 0..MaxBatch}

InitBatch ==
    /\ InitDashboard
    /\ call \in {[fn |-> "processBatchFiles", files |-> fs, options |-> o] :
                    fs \in BatchInputs, o \in EngineOptions}
    /\ ret = [fn |-> "processBatchFiles", results |-> <<>>, returned |-> FALSE]

\* the body of the for loop: await processDicomFile(...); results.push(result)
ProcessNextFile ==
    /\ call.fn = "processBatchFiles"
    /\ ~ret.returned
    /\ Len(ret.results) < Len(call.files)
    /\ ret' = [ret EXCEPT !.results =
                  Append(@, ProcessDicomFile(call.files[Len(@) + 1], call.options))]
    /\ UNCHANGED <<jobs, created, uploaded, activeJobId, processingController, aborted,
                   runs, intervals, processingOptions, fileInput, call>>
    /\ UNCHANGED uploadView

\* i < files.length fails: return results
ReturnResults ==
    /\ call.fn = "processBatchFiles"
    /\ ~ret.returned
    /\ Len(ret.results) >= Len(call.files)
    /\ ret' = [ret EXCEPT !.returned = TRUE]
    /\ UNCHANGED <<jobs, created, uploaded, activeJobId, processingController, aborted,
                   runs, intervals, processingOptions, fileInput, call>>
    /\ UNCHANGED uploadView

NextBatch == ProcessNextFile \/ ReturnResults

SpecBatch == InitBatch /\ [][NextBatch]_vars

\* ---- the two places where the failure of one file is handled: the driving
\* loop of the dashboard and the loop of processBatchFiles.  They share no
\* state; a behaviour exercises one of them.
InitFailures == Init \/ InitBatch

NextFailures ==
    \/ call.fn = "none" /\ Next
    \/ NextBatch

SpecFailures == InitFailures /\ [][NextFailures]_vars

\* ---- generateSummary(files)
MaxOutcomes == 2

\* the metadata fields the summary reads
SummaryMetadata ==
    [modality : {"CT", "MR"}, body_part_examined : {"HEAD", "CHEST"},
     manufacturer : {"SIEMENS", "GE"}, urgent : BOOLEAN,
     phi_flags : {<<>>, <<"PatientName", "PatientID">>}, phi_removed : {"YES", "NO"}]

\* ProcessedFileData: status "success" | "error"
Outcomes ==
    {[status |-> "success", metadata |-> m] : m \in SummaryMetadata}
        \cup {[status |-> "error", metadata |-> NoMetadata]}

OutcomeLists == UNION {[1..n -> Outcomes] : n \in 0..MaxOutcomes}

IsSuccess(f) == f.status = "success"
IsError(f) == f.status = "error"
IsUrgent(f) == f.metadata.urgent
HasPhi(f) == Len(f.metadata.phi_flags) > 0
IsAnonymized(f) == f.metadata.phi_removed = "YES"

\* a counter that is set to 1 instead of being raised
IncOnce(map, key) == IF key \in DOMAIN map THEN [map EXCEPT ![key] = 1] ELSE map @@ (key :> 1)

\* map[key] = (map[key] || 0) + 1
Inc(map, key) == IF key \in DOMAIN map THEN [map EXCEPT ![key] = @ + 1] ELSE map @@ (key :> 1)

\* the three frequency maps after the first n successful files
RECURSIVE Modalities(_, _)
Modalities(succ, n) ==
    IF n = 0 THEN <<>> ELSE Inc(Modalities(succ, n - 1), succ[n].metadata.modality)

RECURSIVE BodyParts(_, _)
BodyParts(succ, n) ==
    IF n = 0 THEN <<>> ELSE Inc(BodyParts(succ, n - 1), succ[n].metadata.body_part_examined)

RECURSIVE Manufacturers(_, _)
Manufacturers(succ, n) ==
    IF n = 0 THEN <<>> ELSE Inc(Manufacturers(succ, n - 1), succ[n].metadata.manufacturer)

GenerateSummary(files) ==
    LET successfulFiles == SelectSeq(files, IsSuccess)
        failedFiles     == SelectSeq(files, IsError)
    IN  [totalFiles      |-> Len(files),
         successfulFiles |-> Len(successfulFiles),
         failedFiles     |-> Len(failedFiles),
         urgentStudies   |-> Len(SelectSeq(successfulFiles, IsUrgent)),
         phiDetected     |-> Len(SelectSeq(successfulFiles, HasPhi)),
         anonymizedFiles |-> Len(SelectSeq(successfulFiles, IsAnonymized)),
         modalities      |-> Modalities(successfulFiles, Len(successfulFiles)),
         bodyParts       |-> BodyParts(successfulFiles, Len(successfulFiles)),
         manufacturers   |-> Manufacturers(successfulFiles, Len(successfulFiles))]

InitSummary ==
    /\ InitDashboard
    /\ call \in {[fn |-> "generateSummary", files |-> fs] : fs \in OutcomeLists}
    /\ ret = NoCall

GenerateSummaryReturns ==
    /\ call.fn = "generateSummary"
    /\ ret = NoCall
    /\ ret' = [fn |-> "generateSummary", summary |-> GenerateSummary(call.files)]
    /\ UNCHANGED <<jobs, created, uploaded, activeJobId, processingController, aborted,
                   runs, intervals, processingOptions, fileInput, call>>
    /\ UNCHANGED uploadView

NextSummary == GenerateSummaryReturns

SpecSummary == InitSummary /\ [][NextSummary]_vars

\* ---- getReportFiles(job) and the summary of the report built from it
\* the files of a job as the report view gets them: file k has the name k; a
\* completed file carries the metadata of its response
ReportMetadata ==
    {m \in SummaryMetadata : m.body_part_examined = "HEAD" /\ m.manufacturer = "SIEMENS"
                              /\ ~m.urgent /\ m.phi_removed = "NO" /\ m.phi_flags = <<>>}

JobFileKinds ==
    {[status |-> st, metadata |-> NoMetadata] : st \in FileStatus \ {"completed"}}
        \cup {[status |-> "completed", metadata |-> m] : m \in ReportMetadata}

JobFileLists == UNION {[1..n -> JobFileKinds] : n \in 0..MaxFiles}

\* a filter that keeps the completed files only
IsReportedIfCompleted(f) == f.status = "completed"

\* .filter((f) => f.status === "completed" || f.status === "error")
IsReported(f) == f.status = "completed" \/ f.status = "error"

\* the files with their names: [fileName, status, metadata]
Named(files) ==
    [k \in 1..Len(files) |->
        [fileName |-> k, status |-> files[k].status, metadata |-> files[k].metadata]]

\* .map((f) => ({ fileName, metadata: f.metadata!, status: completed ? "success" : "error", ... }))
ReportFile(f) ==
    [fileName |-> f.fileName,
     status   |-> IF f.status = "completed" THEN "success" ELSE "error",
     metadata |-> f.metadata]

GetReportFiles(files) ==
    LET kept == SelectSeq(Named(files), IsReported)
    IN  [i \in 1..Len(kept) |-> ReportFile(kept[i])]

InitReport ==
    /\ InitDashboard
    /\ call \in {[fn |-> "getReportFiles", files |-> fs] : fs \in JobFileLists}
    /\ ret = NoCall

\* the report view: getReportFiles(job), then generateReportData builds the summary
GetReportFilesReturns ==
    /\ call.fn = "getReportFiles"
    /\ ret = NoCall
    /\ ret' = [fn |-> "getReportFiles",
               files |-> GetReportFiles(call.files),
               summary |-> GenerateSummary(GetReportFiles(call.files))]
    /\ UNCHANGED <<jobs, created, uploaded, activeJobId, processingController, aborted,
                   runs, intervals, processingOptions, fileInput, call>>
    /\ UNCHANGED uploadView

NextReport == GetReportFilesReturns

SpecReport == InitReport /\ [][NextReport]_vars

\* ---- generateCSVReport(data)
\* The text of the report is a sequence of characters.  An element is one
\* character ("a", the double quote, the comma, the line break) or a literal
\* of the program that holds none of the last three, kept in one piece.
MaxCellLen  == 2
MaxCsvFiles == 2
Quote   == "\""
Comma   == ","
NewLine == "\n"
CellChars   == {"a", Quote, Comma, NewLine}
CellStrings == UNION {[1..n -> CellChars] : n \in 0..MaxCellLen}
NameChoices == {<<"John Doe">>, <<"O", Quote, "Neil">>, <<"Doe", Comma, "John", NewLine>>}

\* ProcessedFileData: the file name and the patient name vary, the other
\* cells are literals
CsvFiles ==
    [fileName : CellStrings, status : {"success"}, patient_name : NameChoices]
        \cup [fileName : CellStrings, status : {"error"}, patient_name : {<<>>}]

CsvFileLists == UNION {[1..n -> CsvFiles] : n \in 0..MaxCsvFiles}

CsvHeaders ==
    << <<"File Name">>, <<"Status">>, <<"Processing Time (ms)">>, <<"Patient ID">>,
       <<"Patient Name">>, <<"Age">>, <<"Sex">>, <<"Modality">>, <<"Body Part">>,
       <<"Study Description">>, <<"Study Date">>, <<"Manufacturer">>, <<"Model">>,
       <<"Urgent">>, <<"PHI Removed">>, <<"PHI Flags">> >>

\* file.status === "success" ? value : ""
IfSuccess(file, value) == IF file.status = "success" THEN value ELSE <<>>

\* the row of one file
CsvRow(file) ==
    << file.fileName, <<file.status>>, <<"1500">>,
       IfSuccess(file, <<"PATIENT_001">>), IfSuccess(file, file.patient_name),
       IfSuccess(file, <<"45Y">>), IfSuccess(file, <<"M">>), IfSuccess(file, <<"CT">>),
       IfSuccess(file, <<"HEAD">>), IfSuccess(file, <<"Routine examination">>),
       IfSuccess(file, <<"2024-01-01T00:00:00.000Z">>), IfSuccess(file, <<"SIEMENS">>),
       IfSuccess(file, <<"SOMATOM Definition AS">>), IfSuccess(file, <<"NO">>),
       IfSuccess(file, <<"NO">>), IfSuccess(file, <<"PatientName;PatientID">>) >>

\* cell.replace(/"/g, '""')
RECURSIVE EscapeQuotes(_)
EscapeQuotes(cell) ==
    IF cell = <<>> THEN <<>>
    ELSE (IF Head(cell) = Quote THEN <<Quote, Quote>> ELSE <<Head(cell)>>)
         \o EscapeQuotes(Tail(cell))

\* a cell put between quotes without doubling the quotes it holds
CsvCellPlain(cell) == <<Quote>> \o cell \o <<Quote>>

\* `"${cell.replace(/"/g, '""')}"`
CsvCell(cell) == <<Quote>> \o EscapeQuotes(cell) \o <<Quote>>

\* parts.join(sep)
RECURSIVE Join(_, _)
Join(parts, sep) ==
    IF parts = <<>> THEN <<>>
    ELSE IF Len(parts) = 1 THEN parts[1]
    ELSE parts[1] \o <<sep>> \o Join(Tail(parts), sep)

CsvLine(row) == Join([i \in 1..Len(row) |-> CsvCell(row[i])], Comma)

\* [headers, ...rows].map(...).join("\n")
GenerateCSVReport(files) ==
    Join([i \in 1..(Len(files) + 1) |->
             CsvLine(IF i = 1 THEN CsvHeaders ELSE CsvRow(files[i - 1]))], NewLine)

InitCsv ==
    /\ InitDashboard
    /\ call \in {[fn |-> "generateCSVReport", files |-> fs] : fs \in CsvFileLists}
    /\ ret = NoCall

GenerateCSVReportReturns ==
    /\ call.fn = "generateCSVReport"
    /\ ret = NoCall
    /\ ret' = [fn |-> "generateCSVReport", text |-> GenerateCSVReport(call.files)]
    /\ UNCHANGED <<jobs, created, uploaded, activeJobId, processingController, aborted,
                   runs, intervals, processingOptions, fileInput, call>>
    /\ UNCHANGED uploadView

NextCsv == GenerateCSVReportReturns

SpecCsv == InitCsv /\ [][NextCsv]_vars

\* ------------------------------------------------------------------ claims
Present == {j \in JobIds : jobs[j].present}
FilesOf(j) == 1..Len(jobs[j].files)
LiveRuns(j) == {r \in RunIds : runs[r].job = j /\ runs[r].pc \in {"fetch", "jsonOk", "jsonErr"}}
DoneRuns(j) == {r \in RunIds : runs[r].job = j /\ runs[r].pc = "done"}

\* the step is a call of startJob(j) that passes its guard
StartedNow(j) == \E r \in RunIds : runs[r].pc = "none" /\ runs'[r].pc # "none" /\ runs'[r].job = j

\* C1: a paused job stays paused until startJob is called on it again: no
\* step other than a call of startJob on the job changes its status from
\* paused; in particular the end of the interrupted loop leaves it paused.
C1_PausedUntilStart ==
    [][\A j \in JobIds :
         (jobs[j].present /\ jobs[j].status = "paused" /\ jobs'[j].present /\ ~StartedNow(j))
            => jobs'[j].status = "paused"]_vars

\* C2: job.progress = round(100 * terminal files / files) for every job in
\* the list, in every state.
C2_ProgressIsTerminalShare ==
    \A j \in Present :
        jobs[j].progress = RoundPct(CountTerminal(jobs[j].files), Len(jobs[j].files))

\* C3: a completed job has every file completed or error.
C3_CompletedJobAllTerminal ==
    \A j \in Present :
        jobs[j].status = "completed" => \A k \in FilesOf(j) : IsTerminal(jobs[j].files[k])

\* C4: at most one job of the list is running.
C4_AtMostOneRunning == Cardinality({j \in Present : jobs[j].status = "running"}) <= 1

\* C5: within one job at most one file is in processing.
C5_OneFileProcessing ==
    \A j \in Present :
        Cardinality({k \in FilesOf(j) : jobs[j].files[k].status = "processing"}) <= 1

\* the step delivers the AbortError of a cancelled request to run r
AbortDelivered(r) ==
    /\ runs[r].pc \in {"fetch", "jsonOk", "jsonErr"}
    /\ SignalAborted(r)
    /\ runs'[r] # runs[r]

\* C6: when the abort of a paused job's in-flight request is delivered, the
\* file in flight becomes paused at progress 0 and every other file of the job
\* keeps its status (not yet started files stay queued, terminal files stay).
C6_PauseLeavesOthersAlone ==
    [][\A r \in RunIds :
         (AbortDelivered(r) /\ jobs[runs[r].job].present)
            => LET j == runs[r].job
                   k == CurFile(r)
               IN  /\ jobs'[j].files[k].status = "paused"
                   /\ jobs'[j].files[k].progress = 0
                   /\ \A k2 \in FilesOf(j) \ {k} :
                        jobs'[j].files[k2].status = jobs[j].files[k2].status]_vars

\* C7: a job that has files left paused or queued and no driving loop alive
\* can be started again: it is idle or paused, the states for which the
\* Start/Resume control is offered.
C7_LeftoverFilesResumable ==
    \A j \in Present :
        ((\E k \in FilesOf(j) : jobs[j].files[k].status \in {"queued", "paused"})
            /\ LiveRuns(j) = {})
        => jobs[j].status \in {"idle", "paused"}

\* C8: a pause does not touch a file that is completed or error: such a file
\* never becomes paused, the status that the delivery of a pause writes (with
\* progress 0) to the file it takes for the one in flight.
C8_TerminalStickyUnderPause ==
    [][\A j \in JobIds :
         (jobs[j].present /\ jobs'[j].present)
            => \A k \in FilesOf(j) :
                 IsTerminal(jobs[j].files[k]) => jobs'[j].files[k].status # "paused"]_vars

\* C9: a file in completed or error is never put back into processing.
C9_NoRetryOfTerminal ==
    [][\A j \in JobIds :
         (jobs[j].present /\ jobs'[j].present)
            => \A k \in FilesOf(j) :
                 IsTerminal(jobs[j].files[k]) => jobs'[j].files[k].status # "processing"]_vars

\* C10: no job has status error because of a failed file, and a job whose
\* loops have all ended with every file terminal and a file in error is
\* completed and has its end time.
C10_FileErrorsCompleteJob ==
    \A j \in Present :
        /\ jobs[j].status # "error"
        /\ (/\ DoneRuns(j) # {}
            /\ LiveRuns(j) = {}
            /\ \A k \in FilesOf(j) : IsTerminal(jobs[j].files[k])
            /\ \E k \in FilesOf(j) : jobs[j].files[k].status = "error")
           => (jobs[j].status = "completed" /\ jobs[j].hasEnd)

C10_Witness ==
    \E j \in Present :
        /\ jobs[j].status = "completed" /\ jobs[j].hasEnd
        /\ DoneRuns(j) # {} /\ LiveRuns(j) = {}
        /\ \A k \in FilesOf(j) : IsTerminal(jobs[j].files[k])
        /\ \E k \in FilesOf(j) : jobs[j].files[k].status = "error"
        /\ \E k \in FilesOf(j) : jobs[j].files[k].status = "completed"

\* the step is run r leaving the file it awaits (not the arrival of the response)
LeavesFile(r) ==
    /\ runs[r].pc \in {"fetch", "jsonOk", "jsonErr"}
    /\ runs'[r] # runs[r]
    /\ ~(runs'[r].pc \in {"jsonOk", "jsonErr"} /\ runs'[r].i = runs[r].i)

\* no cancellation is signalled on the controller the loop head looks at
NoAbortSignalled == ~(processingController # NULL /\ processingController \in aborted)

\* C11: when the request of a file fails (a non-OK response, or an exception
\* that is no AbortError) the file becomes `error` with a non-empty message,
\* and, unless a cancellation is signalled, the loop sets the next file of its
\* queue to processing; processBatchFiles returns one result per input file,
\* in order, and a failed result carries a non-empty error.
C11_FileFailureIsLocal ==
    [][/\ \A r \in RunIds :
            (LeavesFile(r) /\ ~SignalAborted(r) /\ jobs[runs[r].job].present) =>
                LET f == jobs'[runs[r].job].files[CurFile(r)]
                IN  /\ f.status \in (IF runs[r].pc = "jsonOk" THEN {"completed", "error"} ELSE {"error"})
                    /\ f.status = "error" =>
                         /\ f.error # ""
                         /\ (runs[r].i < Len(runs[r].queue) /\ NoAbortSignalled) =>
                              /\ runs'[r].pc = "fetch"
                              /\ runs'[r].i = runs[r].i + 1
                              /\ jobs'[runs[r].job].files[runs[r].queue[runs[r].i + 1]].status = "processing"
       /\ (call.fn = "processBatchFiles" /\ ret'.returned) =>
            /\ Len(ret'.results) = Len(call.files)
            /\ \A i \in 1..Len(call.files) :
                 /\ ret'.results[i].file_path = call.files[i]
                 /\ ~ret'.results[i].success => ret'.results[i].error # ""]_vars

\* processBatchFiles has returned the results of two files, both failed
C11_Witness ==
    /\ ret.fn = "processBatchFiles"
    /\ ret.returned
    /\ Len(call.files) >= 2
    /\ \E i \in 1..Len(ret.results) : ~ret.results[i].success

\* job j was created and is no longer in the list
Deleted(j) == j <= created /\ ~jobs[j].present

C13_OptionsSnapshot ==
    [][/\ \A j \in JobIds :
            /\ (~jobs[j].present /\ jobs'[j].present) =>
                 /\ jobs'[j].processingOptions = processingOptions
                 /\ jobs'[j].progress = 0
                 /\ \A k \in 1..Len(jobs'[j].files) : jobs'[j].files[k] = NewFile
            /\ (jobs[j].present /\ jobs'[j].present) =>
                 jobs'[j].processingOptions = jobs[j].processingOptions
       /\ \A r \in RunIds :
            (runs'[r].pc = "fetch" /\ runs'[r] # runs[r] /\ jobs[runs'[r].job].present) =>
                 runs'[r].options = jobs[runs'[r].job].processingOptions]_vars

\* a request is in flight for a job whose options differ from the settings view
C13_Witness ==
    \E r \in RunIds :
        /\ runs[r].pc = "fetch"
        /\ runs[r].i >= 2
        /\ jobs[runs[r].job].present
        /\ jobs[runs[r].job].processingOptions # processingOptions
        /\ runs[r].options = jobs[runs[r].job].processingOptions

\* C14: the change event of a submission that holds a file whose name does not
\* end in .dcm, or no file at all, creates no job: the submission is rejected
\* as a whole, no job is made of its valid files.
C14_SubmissionRejectedAsWhole ==
    [][(/\ fileInput' = <<>>
        /\ \/ fileInput = <<>>
           \/ \E k \in 1..Len(fileInput) : ~fileInput[k])
       => (jobs' = jobs /\ created' = created)]_vars

\* C15: the pseudonyms of one value under two different salts differ, for each
\* of the values the engine pseudonymizes (the patient identifier of 11
\* characters included).
C15_SaltSeparatesPseudonyms ==
    (/\ ret.fn = "generatePseudonym"
     /\ call.salt # <<>>
     /\ call.salt2 # <<>>
     /\ call.salt # call.salt2)
    => ret.p # ret.p2

\* the identifying fields of a record, the value each holds when nothing is
\* anonymized, and the fields the options configure for anonymization
\* (DEFAULT_ANONYMIZATION_TAGS names patient_name, patient_id and patient_age
\* among fields the record does not have)
IdentifyingFields == {"patient_id", "patient_name", "patient_age"}
RawValue(field) ==
    CASE field = "patient_id"   -> PatientIdValue
      [] field = "patient_name" -> PatientNameValue
      [] field = "patient_age"  -> PatientAgeValue
ConfiguredFields(options) ==
    IF options.anonymize_tags # {} THEN options.anonymize_tags ELSE IdentifyingFields

\* processDicomFile has returned a record
Processed == ret.fn = "processDicomFile" /\ ret.result.success

\* C16: with anonymize set and mode `remove`, every configured identifying
\* field of the record holds the fixed marker "REDACTED".
C16_RemoveWritesMarker ==
    (Processed /\ call.options.anonymize /\ call.options.anonymize_mode = "remove")
    => \A f \in ConfiguredFields(call.options) : ret.result.metadata[f] = Redacted

\* C17: with anonymize set, the fields of the record that differ from their
\* raw value are exactly the configured ones: options.anonymize_tags when it
\* is supplied, the default list otherwise.
C17_ExactlyConfiguredFields ==
    (Processed /\ call.options.anonymize)
    => {f \in IdentifyingFields : ret.result.metadata[f] # RawValue(f)}
         = ConfiguredFields(call.options)

C19_PhiRemovedIffAnonymize ==
    Processed =>
        /\ (ret.result.metadata.phi_removed = "YES") <=> call.options.anonymize
        /\ call.options.anonymize => ret.result.metadata.phi_flags = <<>>
        /\ ~call.options.anonymize =>
             /\ ret.result.metadata.phi_removed = "NO"
             /\ ret.result.metadata.phi_flags = <<"PatientName", "PatientID">>

\* a record processed with anonymize set: marked, flags cleared, identifier replaced
C19_Witness ==
    /\ Processed
    /\ call.options.anonymize
    /\ ret.result.metadata.phi_removed = "YES"
    /\ ret.result.metadata.patient_id # PatientIdValue

\* the sum of the values of a frequency map
RECURSIVE SumValues(_)
SumValues(map) ==
    IF DOMAIN map = {} THEN 0
    ELSE LET key == CHOOSE x \in DOMAIN map : TRUE
         IN  map[key] + SumValues([x \in DOMAIN map \ {key} |-> map[x]])

\* the outcomes of the call that are successes with the given property
SuccessesWith(urgent, phi, removed) ==
    {i \in 1..Len(call.files) :
        /\ call.files[i].status = "success"
        /\ urgent => call.files[i].metadata.urgent
        /\ phi => call.files[i].metadata.phi_flags # <<>>
        /\ removed => call.files[i].metadata.phi_removed = "YES"}

\* C20: in the summary of any list of outcomes, successfulFiles + failedFiles
\* = totalFiles, each of the three frequency maps sums to successfulFiles, and
\* urgentStudies, phiDetected and anonymizedFiles are the numbers of successful
\* outcomes that are urgent, carry PHI flags, are anonymized: none exceeds
\* successfulFiles.
C20_SummaryConsistent ==
    ret.fn = "generateSummary" =>
        LET sm == ret.summary
        IN  /\ sm.totalFiles = Len(call.files)
            /\ sm.successfulFiles + sm.failedFiles = sm.totalFiles
            /\ SumValues(sm.modalities) = sm.successfulFiles
            /\ SumValues(sm.bodyParts) = sm.successfulFiles
            /\ SumValues(sm.manufacturers) = sm.successfulFiles
            /\ sm.urgentStudies = Cardinality(SuccessesWith(TRUE, FALSE, FALSE))
            /\ sm.phiDetected = Cardinality(SuccessesWith(FALSE, TRUE, FALSE))
            /\ sm.anonymizedFiles = Cardinality(SuccessesWith(FALSE, FALSE, TRUE))
            /\ sm.urgentStudies <= sm.successfulFiles
            /\ sm.phiDetected <= sm.successfulFiles
            /\ sm.anonymizedFiles <= sm.successfulFiles

\* the summary of two successes of the same modality, one of them urgent
C20_Witness ==
    /\ ret.fn = "generateSummary"
    /\ ret.summary.successfulFiles = 2
    /\ ret.summary.urgentStudies = 1
    /\ DOMAIN ret.summary.modalities = {"CT"}
    /\ ret.summary.modalities["CT"] = 2

\* A reader of delimited text in which every field is quoted.  A field that
\* does not begin with a quote, or a character after the closing quote that
\* is neither comma nor line break, makes the text malformed.
Malformed == << << <<"malformed">> >> >>

\* the field whose opening quote was just read: i the position, closed after
\* a quote inside the field (the closing one, or the first of a doubled one)
RECURSIVE ReadField(_, _, _, _)
ReadField(text, i, field, closed) ==
    IF i > Len(text) THEN [ok |-> closed, field |-> field, next |-> i]
    ELSE IF ~closed
    THEN (IF text[i] = Quote THEN ReadField(text, i + 1, field, TRUE)
          ELSE ReadField(text, i + 1, Append(field, text[i]), FALSE))
    ELSE IF text[i] = Quote THEN ReadField(text, i + 1, Append(field, Quote), FALSE)
    ELSE [ok |-> TRUE, field |-> field, next |-> i]

\* the fields of one row from position i on
RECURSIVE ReadRow(_, _, _)
ReadRow(text, i, row) ==
    IF i > Len(text) \/ text[i] # Quote THEN [ok |-> FALSE, row |-> row, next |-> i]
    ELSE LET f == ReadField(text, i + 1, <<>>, FALSE)
         IN  IF ~f.ok THEN [ok |-> FALSE, row |-> row, next |-> i]
             ELSE IF f.next > Len(text) \/ text[f.next] = NewLine
             THEN [ok |-> TRUE, row |-> Append(row, f.field), next |-> f.next + 1]
             ELSE IF text[f.next] = Comma THEN ReadRow(text, f.next + 1, Append(row, f.field))
             ELSE [ok |-> FALSE, row |-> row, next |-> i]

RECURSIVE ReadRows(_, _, _)
ReadRows(text, i, rows) ==
    IF i > Len(text) THEN rows
    ELSE LET r == ReadRow(text, i, <<>>)
         IN  IF r.ok THEN ReadRows(text, r.next, Append(rows, r.row)) ELSE Malformed

ParseCsv(text) == ReadRows(text, 1, <<>>)

\* C21: the delimited text of N outcomes, read back as quoted fields with
\* doubled quotes, has N+1 rows, each with as many fields as the header, and
\* the fields read equal the header names and the source values.
C21_CsvRoundTrip ==
    ret.fn = "generateCSVReport" =>
        LET parsed == ParseCsv(ret.text)
        IN  /\ Len(parsed) = Len(call.files) + 1
            /\ \A i \in 1..Len(parsed) : Len(parsed[i]) = Len(CsvHeaders)
            /\ parsed[1] = CsvHeaders
            /\ \A i \in 1..Len(call.files) : parsed[i + 1] = CsvRow(call.files[i])

\* a report of a failed and a successful outcome whose names hold a quote, a
\* comma and a line break
C21_Witness ==
    /\ ret.fn = "generateCSVReport"
    /\ Len(call.files) = 2
    /\ call.files[1].status = "error"
    /\ call.files[1].fileName = <<Quote, NewLine>>
    /\ call.files[2].status = "success"
    /\ call.files[2].fileName = <<Comma, Quote>>
    /\ call.files[2].patient_name = <<"O", Quote, "Neil">>

\* C22: when the request a loop awaits has been cancelled (its signal is
\* aborted) and the loop leaves the file, the file is `paused` at progress 0
\* and its error message is what it was: the cancellation neither sets the
\* status `error` nor writes a message.
C22_CancelledFileIsPaused ==
    [][\A r \in RunIds :
          (LeavesFile(r) /\ SignalAborted(r) /\ jobs[runs[r].job].present) =>
              LET f == jobs'[runs[r].job].files[CurFile(r)]
              IN  /\ f.status = "paused"
                  /\ f.progress = 0
                  /\ f.error = CurRecord(r).error]_vars

\* the loop of a paused job has ended and left a paused file without a message
C22_Witness ==
    \E r \in RunIds : \E j \in JobIds :
        /\ runs[r].pc = "done"
        /\ runs[r].job = j
        /\ jobs[j].present
        /\ \E k \in 1..Len(jobs[j].files) :
              jobs[j].files[k].status = "paused" /\ jobs[j].files[k].error = ""

SameFile(j, k) ==
    /\ jobs[j].present /\ jobs'[j].present
    /\ k <= Len(jobs[j].files)

\* C24: file progress lies in [0,100]; a file that enters processing has
\* progress 0; while it stays in processing its progress never decreases and
\* rises by steps of 10 to at most 90; a file that becomes completed has
\* progress 100.
C24_ProgressMonotoneWhileProcessing ==
    [][\A j \in JobIds : \A k \in 1..MaxFiles :
          SameFile(j, k) =>
              LET f == jobs[j].files[k]
                  g == jobs'[j].files[k]
              IN  /\ g.progress \in 0..100
                  /\ (f.status # "processing" /\ g.status = "processing") => g.progress = 0
                  /\ (f.status = "processing" /\ g.status = "processing") =>
                        /\ g.progress >= f.progress
                        /\ g.progress \in {f.progress, f.progress + 10}
                        /\ g.progress <= 90
                  /\ (f.status # "completed" /\ g.status = "completed") => g.progress = 100]_vars

\* C25: a running job is the job of the active-job slot, and the shared
\* controller is non-null and is the controller of a live loop of that job.
C25_RunningJobOwnsController ==
    \A j \in JobIds :
        (jobs[j].present /\ jobs[j].status = "running") =>
            /\ activeJobId = j
            /\ processingController # NULL
            /\ processingController \in LiveRuns(j)

\* C26: in every state of the dashboard a file has progress 100 exactly when
\* it is completed, and a queued, paused or failed file has progress 0.
C26_ProgressMatchesStatus ==
    \A j \in JobIds : \A k \in 1..MaxFiles :
        (jobs[j].present /\ k <= Len(jobs[j].files)) =>
            LET f == jobs[j].files[k]
            IN  /\ (f.progress = 100) <=> (f.status = "completed")
                /\ f.status \in {"queued", "paused", "error"} => f.progress = 0

\* a job holds a completed file, a failed file and a paused file
C26_Witness ==
    \E j \in JobIds :
        /\ jobs[j].present
        /\ \E k \in 1..Len(jobs[j].files) : jobs[j].files[k].status = "completed"
        /\ \E k \in 1..Len(jobs[j].files) : jobs[j].files[k].status = "error"
        /\ \E k \in 1..Len(jobs[j].files) : jobs[j].files[k].status = "paused"

\* the files of job j that are in processing
ProcessingFiles(j) ==
    IF jobs[j].present
    THEN {k \in 1..Len(jobs[j].files) : jobs[j].files[k].status = "processing"}
    ELSE {}

\* C27: a ticker is live only for a file that is in processing, and a file
\* in processing has one ticker at most: the tickers of earlier attempts and
\* of files that have left processing are stopped.
C27_TickersStopWithFile ==
    \A j \in JobIds : \A k \in 1..MaxFiles :
        intervals[j][k] <= (IF k \in ProcessingFiles(j) THEN 1 ELSE 0)

C29_ProcessingEnds ==
    \A k \in FileIds :
        (uploadedFiles[k].present /\ uploadedFiles[k].status = "processing")
            ~> (uploadedFiles[k].status \in {"completed", "error"})

\* the positions of the files of the job with one of the given statuses
FilesWith(statuses) == {k \in 1..Len(call.files) : call.files[k].status \in statuses}

\* the positions in the report that stand for file k of the job
ReportedAt(k) == {i \in 1..Len(ret.files) : ret.files[i].fileName = k}

\* C30: the report of a job holds each completed file once as a success, each
\* failed file once as an error and no other file, and the summary's
\* totalFiles is the number of terminal files of the job.
C30_ReportCoversTerminalFiles ==
    ret.fn = "getReportFiles" =>
        /\ \A k \in FilesWith({"completed"}) :
              /\ Cardinality(ReportedAt(k)) = 1
              /\ \A i \in ReportedAt(k) : ret.files[i].status = "success"
        /\ \A k \in FilesWith({"error"}) :
              /\ Cardinality(ReportedAt(k)) = 1
              /\ \A i \in ReportedAt(k) : ret.files[i].status = "error"
        /\ \A k \in FilesWith({"queued", "paused", "processing"}) : ReportedAt(k) = {}
        /\ \A i \in 1..Len(ret.files) : ret.files[i].fileName \in FilesWith({"completed", "error"})
        /\ ret.summary.totalFiles = Cardinality(FilesWith({"completed", "error"}))
        /\ ret.summary.successfulFiles = Cardinality(FilesWith({"completed"}))
        /\ ret.summary.failedFiles = Cardinality(FilesWith({"error"}))

\* the report of a job with a completed, a failed and a paused file
C30_Witness ==
    /\ ret.fn = "getReportFiles"
    /\ FilesWith({"completed"}) # {}
    /\ FilesWith({"error"}) # {}
    /\ FilesWith({"paused"}) # {}
    /\ ret.summary.totalFiles = 2

====
